---- MODULE Spec2Model ----
(***************************************************************************)
(* A model of app.py: the register / login / logout / dashboard handlers   *)
(* over the users collection and the client-held session, the contact form *)
(* over the contacts collection, the notification mails of both, and       *)
(* fetch_news over the process-wide NEWS_CACHE.                            *)
(*                                                                         *)
(* A process of the model is one client (one cookie jar) with at most one  *)
(* request in flight; requests of different clients interleave at the      *)
(* points where the code touches shared state (a call on the users         *)
(* collection, a read or a write of a NEWS_CACHE key).                     *)
(***************************************************************************)
EXTENDS Integers, Sequences, FiniteSets, TLC

\* ------------------------------------------------------------------ bounds

Procs == {"c1", "c2"}
Usernames == {"alice", "bob"}
Passwords == {"pw1", "pw2"}
\* The contact forms submitted: a name, an e-mail address and a message each.
Forms == {"f1", "f2"}
\* What the SMTP server does with a message: take it, or fail.
Transports == {"ok", "down"}

\* At most MaxUsers records are inserted in one run.
MaxUsers == 2
\* The clock advances at most ClockSpan times.
ClockSpan == 2
\* The feed source serves at most MaxItems + FeedExtra entries.
FeedExtra == 1
\* At most MaxContacts contact forms are submitted in one run.
MaxContacts == 2

None == "None"

\* The salts generate_password_hash can draw: one for every record there
\* can be.
Salts == {<<"salt", n>> : n \in 1..MaxUsers}

VARIABLES
    users,      \* users_collection: the records in insertion order
    regpw,      \* history: regpw[i] is the plaintext users[i] was registered with
    dbUp,       \* whether the document store answers (TRUE) or raises (FALSE)
    session,    \* session[p]: the session dict client p holds
    pc,         \* pc[p]: where the request of client p stands
    req,        \* req[p]: the register request of client p in flight
    response,   \* the exchange completed last: the client, its request, the answer
    contacts,   \* contacts_collection: the messages in insertion order
    smtp,       \* whether SMTP_USER, SMTP_PASSWORD and SMTP_TO_EMAIL are all set
    outbox,     \* the calls of send_email so far: the subject, what became of it
    clock,      \* time.time()
    NEWS_CACHE, \* the dict {"ts", "items"}
    now,        \* now[p]: fetch_news's local now
    items,      \* items[p]: fetch_news's local items
    seen,       \* history: the "ts" the fetch_news of p read, the feed answer it got
                \* (its kind and its entries), whether another call overlapped it
    written,    \* history: the (ts, items) pairs a refresh wrote, and the initial one
    wroteBy     \* history: the kind of feed answer behind the last write of "ts"

authVars == <<users, regpw, dbUp, session, pc, req, response>>
mailVars == <<contacts, smtp, outbox>>
newsVars == <<clock, NEWS_CACHE, now, items, seen, written, wroteBy>>
vars == <<users, regpw, dbUp, session, pc, req, response,
          contacts, smtp, outbox,
          clock, NEWS_CACHE, now, items, seen, written, wroteBy>>

\* ------------------------------------------------------------ the session

\* session.clear(): a dict with no key.
EmptySession == [k \in {} |-> None]

\* str(ObjectId): the identifier's text form, distinct for distinct ids.
Str(id) == <<"oid", id>>

\* A session that is given its user_id only.
SetSession_UserIdOnly(s, uid, uname) ==
    [k \in (DOMAIN s) \cup {"user_id"} |-> IF k = "user_id" THEN uid ELSE s[k]]

\* session["user_id"] = ...; session["username"] = ...
SetSession(s, uid, uname) ==
    [k \in (DOMAIN s) \cup {"user_id", "username"} |->
        IF k = "user_id" THEN uid ELSE IF k = "username" THEN uname ELSE s[k]]

\* ------------------------------------------------------- password hashing

\* The digest of a password under a salt (the hash function is one-way and
\* collision-free on the modelled inputs).
Digest(salt, password) == <<"H", salt, password>>

\* A generate_password_hash without a salt.
GeneratePasswordHash_Unsalted(password, salt) ==
    <<"scrypt", <<>>, Digest(<<>>, password)>>

\* generate_password_hash with the salt the call drew: the text
\* "method$salt$digest", as the sequence of its three parts.
GeneratePasswordHash(password, salt) == <<"scrypt", salt, Digest(salt, password)>>

\* The text of a plaintext password, as a sequence of parts: one part.
Plaintext(password) == <<password>>

\* check_password_hash: a text without the three parts matches nothing; the
\* digest of the password under the text's salt is compared with its digest.
check_password_hash(pwhash, password) ==
    /\ Len(pwhash) = 3
    /\ pwhash[3] = Digest(pwhash[2], password)

\* ------------------------------------------------------- the users collection

\* The result of find_one: <<>> is Python's None, <<doc>> a document found.
NoDoc == <<>>

Matches(username) == {i \in DOMAIN users : users[i].username = username}

\* A find_one whose filter never matches (a wrong field name in the filter).
FindOne_NeverMatches(username) == NoDoc

\* users_collection.find_one({"username": username}): the first match in the
\* collection's natural (insertion) order, or None.
FindOne(username) ==
    IF Matches(username) = {} THEN NoDoc
    ELSE <<users[CHOOSE i \in Matches(username) : \A j \in Matches(username) : i <= j]>>

\* The _id insert_one gives the next record.
NextId == Len(users) + 1

\* The salts of the stored hashes.
UsedSalts == {users[i].password[2] : i \in {j \in DOMAIN users : Len(users[j].password) = 3}}

\* The salt is 16 characters drawn at random for each hash: a draw is taken
\* never to repeat the salt of a stored hash.
FreshSalts == Salts \ UsedSalts

\* ------------------------------------------------------------- responses

Redirect(to, category, message) ==
    [status |-> 302, to |-> to, flash |-> <<category, message>>, news |-> <<>>]

\* render_template(template, news=context).
Page(template, context) ==
    [status |-> 200, to |-> template, flash |-> <<>>, news |-> context]

\* An exception no handler catches: Flask answers 500.
ServerError == [status |-> 500, to |-> None, flash |-> <<>>, news |-> <<>>]

NoResponse == [status |-> 0, to |-> None, flash |-> <<>>, news |-> <<>>]

RegDuplicate ==
    Redirect("register", "danger", "Username already exists. Please choose another.")
RegSuccess ==
    Redirect("dashboard", "success", "Registration successful! You are now logged in.")
RegFailed == Redirect("register", "danger", "Registration failed. Try again.")
ContactThanks ==
    Redirect("contact", "success", "Thanks for reaching out! We'll get back to you soon.")
LoginSuccess == Redirect("dashboard", "success", "Logged in successfully.")
LoginInvalid == Redirect("login", "danger", "Invalid username or password.")
LoggedOut == Redirect("home", "info", "You have been logged out.")
LoginRequired == Redirect("login", "warning", "Please log in to view this page.")
DashboardPage == Page("dashboard.html", <<>>)

\* A request: the route and the form it carries.
Request(op, username, password) ==
    [op |-> op, username |-> username, password |-> password, form |-> None]

Get(op) == Request(op, None, None)

\* POST /contact with the form `form`.
ContactRequest(form) ==
    [op |-> "contact", username |-> None, password |-> None, form |-> form]

NoReq == Request("none", None, None)

\* The answer `answer` to `request` goes out to client p.
Sent(p, request, answer) == [client |-> p, request |-> request, answer |-> answer]

\* ------------------------------------------------------------------ Init

InitAuth ==
    /\ users = <<>>
    /\ regpw = <<>>
    /\ dbUp = TRUE
    /\ session = [p \in Procs |-> EmptySession]
    /\ pc = [p \in Procs |-> "idle"]
    /\ req = [p \in Procs |-> NoReq]
    /\ response = Sent(None, NoReq, NoResponse)
    /\ contacts = <<>>
    /\ outbox = <<>>

\* ---------------------------------------------------------------- the mail

\* A send_email that lets the failure of the SMTP server out.
send_email_Raises(configured, transport) ==
    IF ~configured
    THEN [attempt |-> "skipped", returns |-> FALSE, raises |-> FALSE]
    ELSE IF transport = "ok"
         THEN [attempt |-> "sent", returns |-> TRUE, raises |-> FALSE]
         ELSE [attempt |-> "failed", returns |-> FALSE, raises |-> TRUE]

\* A send_email that takes missing SMTP settings for an error.
send_email_RaisesUnconfigured(configured, transport) ==
    IF ~configured
    THEN [attempt |-> "skipped", returns |-> FALSE, raises |-> TRUE]
    ELSE IF transport = "ok"
         THEN [attempt |-> "sent", returns |-> TRUE, raises |-> FALSE]
         ELSE [attempt |-> "failed", returns |-> FALSE, raises |-> FALSE]

\* send_email: without the SMTP settings nothing is sent and the call returns
\* False; with them the message goes to the server inside a try, and the
\* call returns True, or False when the server fails.
send_email(configured, transport) ==
    IF ~configured
    THEN [attempt |-> "skipped", returns |-> FALSE, raises |-> FALSE]
    ELSE IF transport = "ok"
         THEN [attempt |-> "sent", returns |-> TRUE, raises |-> FALSE]
         ELSE [attempt |-> "failed", returns |-> FALSE, raises |-> FALSE]

\* send_registration_notification, send_contact_notification: the subjects.
RegistrationSubject(username) == <<"New User Registered", username>>
ContactSubject(form) == <<"New Contact", form>>

\* One call of send_email as the outbox records it.
Mailed(subject, mail) == [subject |-> subject, attempt |-> mail.attempt]

\* ------------------------------------------------------- the document store

\* The store becomes unreachable: find_one and insert_one raise.
DbFail ==
    /\ dbUp
    /\ dbUp' = FALSE
    /\ UNCHANGED <<users, regpw, session, pc, req, response>>
    /\ UNCHANGED newsVars
    /\ UNCHANGED mailVars

DbRecover ==
    /\ ~dbUp
    /\ dbUp' = TRUE
    /\ UNCHANGED <<users, regpw, session, pc, req, response>>
    /\ UNCHANGED newsVars
    /\ UNCHANGED mailVars

\* The requests in flight that may still insert a user record.
Registering == {q \in Procs : pc[q] = "reg_insert"}

\* ---------------------------------------------------------------- register

\* POST /register (a GET only renders the form): existing_user =
\* users_collection.find_one(...); if
\* existing_user: reject. find_one is outside any try: when the store raises,
\* no handler catches it and the request ends in a 500.
Register(p, username, password) ==
    /\ pc[p] = "idle"
    /\ LET request == Request("register", username, password) IN
       IF ~dbUp
       THEN /\ response' = Sent(p, request, ServerError)
            /\ UNCHANGED <<pc, req>>
       ELSE IF FindOne(username) # NoDoc
            THEN /\ response' = Sent(p, request, RegDuplicate)
                 /\ UNCHANGED <<pc, req>>
            ELSE /\ Len(users) + Cardinality(Registering) < MaxUsers
                 /\ req' = [req EXCEPT ![p] = request]
                 /\ pc' = [pc EXCEPT ![p] = "reg_insert"]
                 /\ UNCHANGED response
    /\ UNCHANGED <<users, regpw, dbUp, session>>
    /\ UNCHANGED newsVars
    /\ UNCHANGED mailVars

\* An insert under a unique index on username: a second record is refused.
RegisterInsert_Rechecks(p) ==
    /\ pc[p] = "reg_insert"
    /\ \E salt \in FreshSalts, transport \in Transports :
        LET hashed_pw == GeneratePasswordHash(req[p].password, salt)
            doc == [id |-> NextId, username |-> req[p].username, password |-> hashed_pw]
            mail == send_email(smtp, transport)
        IN  IF dbUp /\ FindOne(req[p].username) = NoDoc
            THEN /\ users' = Append(users, doc)
                 /\ regpw' = Append(regpw, req[p].password)
                 /\ session' = [session EXCEPT ![p] =
                                   SetSession(session[p], Str(doc.id), req[p].username)]
                 /\ outbox' = Append(outbox,
                                     Mailed(RegistrationSubject(req[p].username), mail))
                 /\ response' = Sent(p, req[p],
                                     IF mail.raises THEN RegFailed ELSE RegSuccess)
            ELSE /\ response' = Sent(p, req[p], RegFailed)
                 /\ UNCHANGED <<users, regpw, session, outbox>>
    /\ pc' = [pc EXCEPT ![p] = "idle"]
    /\ req' = [req EXCEPT ![p] = NoReq]
    /\ UNCHANGED <<dbUp, contacts, smtp>>
    /\ UNCHANGED newsVars

\* hashed_pw = generate_password_hash(password); try: insert_one, set the
\* session, notify, answer success; except: answer "Registration failed".
\* The notification is sent inside the try: anything it raised would be
\* answered "Registration failed" with the record stored and the session set.
RegisterInsert(p) ==
    /\ pc[p] = "reg_insert"
    /\ \E salt \in FreshSalts, transport \in Transports :
        LET hashed_pw == GeneratePasswordHash(req[p].password, salt)
            doc == [id |-> NextId, username |-> req[p].username, password |-> hashed_pw]
            mail == send_email(smtp, transport)
        IN  IF dbUp
            THEN /\ users' = Append(users, doc)
                 /\ regpw' = Append(regpw, req[p].password)
                 /\ session' = [session EXCEPT ![p] =
                                   SetSession(session[p], Str(doc.id), req[p].username)]
                 /\ outbox' = Append(outbox,
                                     Mailed(RegistrationSubject(req[p].username), mail))
                 /\ response' = Sent(p, req[p],
                                     IF mail.raises THEN RegFailed ELSE RegSuccess)
            ELSE /\ response' = Sent(p, req[p], RegFailed)
                 /\ UNCHANGED <<users, regpw, session, outbox>>
    /\ pc' = [pc EXCEPT ![p] = "idle"]
    /\ req' = [req EXCEPT ![p] = NoReq]
    /\ UNCHANGED <<dbUp, contacts, smtp>>
    /\ UNCHANGED newsVars

\* ------------------------------------------------------------------- login

\* A login that forgets the password check.
LoginAnswer_NoPasswordCheck(user, password) ==
    IF user # NoDoc THEN LoginSuccess ELSE LoginInvalid

\* A login that tells an unknown username from a wrong password.
LoginAnswer_Enumerates(user, password) ==
    IF user = NoDoc
    THEN Redirect("login", "danger", "Unknown username.")
    ELSE IF check_password_hash(user[1].password, password)
         THEN LoginSuccess
         ELSE LoginInvalid

\* The answer of login once find_one has answered `user`.
LoginAnswer(user, password) ==
    IF user # NoDoc /\ check_password_hash(user[1].password, password)
    THEN LoginSuccess
    ELSE LoginInvalid

\* A login that stores the password again, under a salt of its own, each
\* time it succeeds.
Login_Rehashes(p, username, password) ==
    /\ pc[p] = "idle"
    /\ LET request == Request("login", username, password) IN
       IF ~dbUp
       THEN /\ response' = Sent(p, request, ServerError)
            /\ UNCHANGED <<session, users>>
       ELSE LET user == FindOne(username)
                answer == LoginAnswer(user, password)
            IN  /\ response' = Sent(p, request, answer)
                /\ IF answer = LoginSuccess
                   THEN /\ session' = [session EXCEPT ![p] =
                              SetSession(session[p], Str(user[1].id), user[1].username)]
                        /\ \E salt \in Salts :
                              users' = [users EXCEPT ![user[1].id].password =
                                           GeneratePasswordHash(password, salt)]
                   ELSE UNCHANGED <<session, users>>
    /\ UNCHANGED <<regpw, dbUp, pc, req>>
    /\ UNCHANGED newsVars
    /\ UNCHANGED mailVars

\* A login that drops the session it finds when the credentials are wrong.
Login_ClearsOnFailure(p, username, password) ==
    /\ pc[p] = "idle"
    /\ LET request == Request("login", username, password) IN
       IF ~dbUp
       THEN /\ response' = Sent(p, request, ServerError)
            /\ UNCHANGED session
       ELSE LET user == FindOne(username)
                answer == LoginAnswer(user, password)
            IN  /\ response' = Sent(p, request, answer)
                /\ session' = [session EXCEPT ![p] =
                       IF answer = LoginSuccess
                       THEN SetSession(session[p], Str(user[1].id), user[1].username)
                       ELSE EmptySession]
    /\ UNCHANGED <<users, regpw, dbUp, pc, req>>
    /\ UNCHANGED newsVars
    /\ UNCHANGED mailVars

\* POST /login (a GET only renders the form): user = find_one(...); the
\* password check; the session; the answer. find_one is outside any try here
\* too.
Login(p, username, password) ==
    /\ pc[p] = "idle"
    /\ LET request == Request("login", username, password) IN
       IF ~dbUp
       THEN /\ response' = Sent(p, request, ServerError)
            /\ UNCHANGED session
       ELSE LET user == FindOne(username)
                answer == LoginAnswer(user, password)
            IN  /\ response' = Sent(p, request, answer)
                /\ IF answer = LoginSuccess
                   THEN session' = [session EXCEPT ![p] =
                          SetSession(session[p], Str(user[1].id), user[1].username)]
                   ELSE UNCHANGED session
    /\ UNCHANGED <<users, regpw, dbUp, pc, req>>
    /\ UNCHANGED newsVars
    /\ UNCHANGED mailVars

\* ------------------------------------------------------ logout, dashboard

\* A logout that pops "username" only.
Logout_KeepsUserId(p) ==
    /\ pc[p] = "idle"
    /\ session' = [session EXCEPT ![p] =
                      [k \in (DOMAIN session[p]) \ {"username"} |-> session[p][k]]]
    /\ response' = Sent(p, Get("logout"), LoggedOut)
    /\ UNCHANGED <<users, regpw, dbUp, pc, req>>
    /\ UNCHANGED newsVars
    /\ UNCHANGED mailVars

\* A logout that deletes the key: del session["user_id"] raises without it.
Logout_RequiresSession(p) ==
    /\ pc[p] = "idle"
    /\ session' = [session EXCEPT ![p] = EmptySession]
    /\ response' = Sent(p, Get("logout"),
                        IF "user_id" \in DOMAIN session[p] THEN LoggedOut ELSE ServerError)
    /\ UNCHANGED <<users, regpw, dbUp, pc, req>>
    /\ UNCHANGED newsVars
    /\ UNCHANGED mailVars

\* GET /logout: session.clear().
Logout(p) ==
    /\ pc[p] = "idle"
    /\ session' = [session EXCEPT ![p] = EmptySession]
    /\ response' = Sent(p, Get("logout"), LoggedOut)
    /\ UNCHANGED <<users, regpw, dbUp, pc, req>>
    /\ UNCHANGED newsVars
    /\ UNCHANGED mailVars

\* login_required's test.
HasSession(s) == "user_id" \in DOMAIN s

\* GET /dashboard behind login_required.
Dashboard(p) ==
    /\ pc[p] = "idle"
    /\ response' = Sent(p, Get("dashboard"),
                        IF HasSession(session[p]) THEN DashboardPage ELSE LoginRequired)
    /\ UNCHANGED <<users, regpw, dbUp, session, pc, req>>
    /\ UNCHANGED newsVars
    /\ UNCHANGED mailVars

\* ----------------------------------------------------------------- contact

\* The contact forms submitted so far (each one calls send_email once).
Submitted == {i \in DOMAIN outbox : outbox[i].subject[1] = "New Contact"}

\* POST /contact (a GET only renders the form): try: insert_one; except:
\* print. Then send_contact_notification, outside any try; then the thanks.
Contact(p, form) ==
    /\ pc[p] = "idle"
    /\ Cardinality(Submitted) < MaxContacts
    /\ \E transport \in Transports :
        LET doc == [form |-> form, created_at |-> clock]
            mail == send_email(smtp, transport)
        IN  /\ contacts' = IF dbUp THEN Append(contacts, doc) ELSE contacts
            /\ outbox' = Append(outbox, Mailed(ContactSubject(form), mail))
            /\ response' = Sent(p, ContactRequest(form),
                                IF mail.raises THEN ServerError ELSE ContactThanks)
    /\ UNCHANGED <<users, regpw, dbUp, session, pc, req, smtp>>
    /\ UNCHANGED newsVars

AuthStep(p) ==
    \/ \E username \in Usernames, password \in Passwords :
           Register(p, username, password)
    \/ RegisterInsert(p)
    \/ \E username \in Usernames, password \in Passwords :
           Login(p, username, password)
    \/ Logout(p)
    \/ Dashboard(p)

\* --------------------------------------------------------------- the feed

\* CACHE_TTL (NEWS_CACHE_TTL, 3600 by default), scaled to the model's clock.
CACHE_TTL == 2

\* feed.entries[:8]
MaxItems == 8

\* time.time() when the process starts: far more than CACHE_TTL after 0.
StartTime == CACHE_TTL
MaxTime == StartTime + ClockSpan

\* The editions of the feed the source serves: edition "A" is short (and can be
\* empty), edition "B" has more entries than fetch_news keeps.
Editions == {<<"A", 0>>, <<"A", 1>>, <<"B", MaxItems + FeedExtra>>}

\* The i-th entry of edition v of the feed; edition "B" carries no date.
Entry(v, i) ==
    IF v = "A"
    THEN [title |-> <<v, i>>, link |-> <<"http", v, i>>, published |-> <<"date", i>>]
    ELSE [title |-> <<v, i>>, link |-> <<"http", v, i>>]

Entries(v, n) == [i \in 1..n |-> Entry(v, i)]

\* What feedparser.parse can do: raise; answer a feed it could not fetch or
\* parse (bozo, no entries); answer a well-formed feed, with or without entries.
FeedAnswers ==
    {[kind |-> "raise", entries |-> <<>>], [kind |-> "bozo", entries |-> <<>>]}
    \cup {[kind |-> "ok", entries |-> Entries(e[1], e[2])] : e \in Editions}

\* A fetch that failed: the source could not be reached or parsed.
Failed(kind) == kind \in {"raise", "bozo"}

\* {"title": entry.get("title"), "link": ..., "published": entry.get("published", "")}
Item(entry) ==
    [title |-> entry.title, link |-> entry.link,
     published |-> IF "published" \in DOMAIN entry THEN entry.published ELSE <<>>]

\* A slice that keeps everything.
Take_All(s, n) == s

\* s[:n]
Take(s, n) == SubSeq(s, 1, IF Len(s) < n THEN Len(s) ELSE n)

\* The loop of fetch_news over feed.entries[:8].
BuildItems(entries) ==
    LET head == Take(entries, MaxItems) IN [i \in 1..Len(head) |-> Item(head[i])]

NewsPage(news_items) == Page("news.html", news_items)

NoSeen == [ts |-> 0, fetch |-> "none", entries |-> <<>>, overlapped |-> FALSE]

InitNews ==
    /\ clock = StartTime
    /\ NEWS_CACHE = [ts |-> 0, items |-> <<>>]
    /\ now = [p \in Procs |-> 0]
    /\ items = [p \in Procs |-> <<>>]
    /\ seen = [p \in Procs |-> NoSeen]
    /\ written = {<<0, <<>>>>}
    /\ wroteBy = "init"

\* The process as it starts with the environment's defaults: SMTP_USER,
\* SMTP_PASSWORD and SMTP_TO_EMAIL are "" unless the environment sets them.
Init == InitAuth /\ InitNews /\ smtp = FALSE

\* The process as it starts, with the SMTP settings present or absent.
InitAnySmtp == InitAuth /\ InitNews /\ smtp \in BOOLEAN

\* The clock advances.
Tick ==
    /\ clock < MaxTime
    /\ clock' = clock + 1
    /\ UNCHANGED <<NEWS_CACHE, now, items, seen, written, wroteBy>>
    /\ UNCHANGED authVars
    /\ UNCHANGED mailVars

\* The client has a call of fetch_news in flight.
InFetchNews(q) ==
    pc[q] \in {"news_ts", "news_items", "news_return",
               "news_parse", "news_set_ts", "news_set_items"}

\* GET /news arrives; fetch_news: now = time.time(). (The call overlaps the
\* calls in flight, and they overlap it.)
NewsStart(p) ==
    /\ pc[p] = "idle"
    /\ now' = [now EXCEPT ![p] = clock]
    /\ pc' = [pc EXCEPT ![p] = "news_ts"]
    /\ seen' = [q \in Procs |->
                   IF q = p
                   THEN [seen[p] EXCEPT !.overlapped = \E r \in Procs : InFetchNews(r)]
                   ELSE IF InFetchNews(q)
                        THEN [seen[q] EXCEPT !.overlapped = TRUE]
                        ELSE seen[q]]
    /\ UNCHANGED <<clock, NEWS_CACHE, items, written, wroteBy>>
    /\ UNCHANGED <<users, regpw, dbUp, session, req, response>>
    /\ UNCHANGED mailVars

\* A freshness test that is off by one: <= for <.
NewsReadTs_Inclusive(p) ==
    /\ pc[p] = "news_ts"
    /\ seen' = [seen EXCEPT ![p].ts = NEWS_CACHE.ts]
    /\ pc' = [pc EXCEPT ![p] =
                 IF now[p] - NEWS_CACHE.ts <= CACHE_TTL THEN "news_items" ELSE "news_parse"]
    /\ UNCHANGED <<clock, NEWS_CACHE, now, items, written, wroteBy>>
    /\ UNCHANGED <<users, regpw, dbUp, session, req, response>>
    /\ UNCHANGED mailVars

\* now - NEWS_CACHE["ts"] < CACHE_TTL
NewsReadTs(p) ==
    /\ pc[p] = "news_ts"
    /\ seen' = [seen EXCEPT ![p].ts = NEWS_CACHE.ts]
    /\ pc' = [pc EXCEPT ![p] =
                 IF now[p] - NEWS_CACHE.ts < CACHE_TTL THEN "news_items" ELSE "news_parse"]
    /\ UNCHANGED <<clock, NEWS_CACHE, now, items, written, wroteBy>>
    /\ UNCHANGED <<users, regpw, dbUp, session, req, response>>
    /\ UNCHANGED mailVars

\* ... and NEWS_CACHE["items"]
NewsReadItems(p) ==
    /\ pc[p] = "news_items"
    /\ pc' = [pc EXCEPT ![p] =
                 IF NEWS_CACHE.items # <<>> THEN "news_return" ELSE "news_parse"]
    /\ UNCHANGED newsVars
    /\ UNCHANGED mailVars
    /\ UNCHANGED <<users, regpw, dbUp, session, req, response>>

\* return NEWS_CACHE["items"]
NewsReturnCached(p) ==
    /\ pc[p] = "news_return"
    /\ response' = Sent(p, Get("news"), NewsPage(NEWS_CACHE.items))
    /\ pc' = [pc EXCEPT ![p] = "idle"]
    /\ now' = [now EXCEPT ![p] = 0]
    /\ seen' = [seen EXCEPT ![p] = NoSeen]
    /\ UNCHANGED <<clock, NEWS_CACHE, items, written, wroteBy>>
    /\ UNCHANGED <<users, regpw, dbUp, session, req>>
    /\ UNCHANGED mailVars

\* feed = feedparser.parse(NEWS_FEED_URL) and the loop building items; or the
\* except branch: return [].
NewsParse(p) ==
    /\ pc[p] = "news_parse"
    /\ \E feed \in FeedAnswers :
        /\ IF feed.kind = "raise"
           THEN /\ response' = Sent(p, Get("news"), NewsPage(<<>>))
                /\ pc' = [pc EXCEPT ![p] = "idle"]
                /\ now' = [now EXCEPT ![p] = 0]
                /\ seen' = [seen EXCEPT ![p] = NoSeen]
                /\ UNCHANGED items
           ELSE /\ items' = [items EXCEPT ![p] = BuildItems(feed.entries)]
                /\ pc' = [pc EXCEPT ![p] = "news_set_ts"]
                /\ seen' = [seen EXCEPT ![p].fetch = feed.kind,
                                        ![p].entries = feed.entries]
                /\ UNCHANGED <<response, now>>
    /\ UNCHANGED <<clock, NEWS_CACHE, written, wroteBy>>
    /\ UNCHANGED <<users, regpw, dbUp, session, req>>
    /\ UNCHANGED mailVars

\* A refresh that stamps the entry with the time it will expire no more.
NewsSetTs_Backdates(p) ==
    /\ pc[p] = "news_set_ts"
    /\ NEWS_CACHE' = [NEWS_CACHE EXCEPT !.ts = now[p] - CACHE_TTL]
    /\ written' = written \cup {<<now[p] - CACHE_TTL, items[p]>>}
    /\ wroteBy' = seen[p].fetch
    /\ pc' = [pc EXCEPT ![p] = "news_set_items"]
    /\ UNCHANGED <<clock, now, items, seen>>
    /\ UNCHANGED <<users, regpw, dbUp, session, req, response>>
    /\ UNCHANGED mailVars

\* NEWS_CACHE["ts"] = now
NewsSetTs(p) ==
    /\ pc[p] = "news_set_ts"
    /\ NEWS_CACHE' = [NEWS_CACHE EXCEPT !.ts = now[p]]
    /\ written' = written \cup {<<now[p], items[p]>>}
    /\ wroteBy' = seen[p].fetch
    /\ pc' = [pc EXCEPT ![p] = "news_set_items"]
    /\ UNCHANGED <<clock, now, items, seen>>
    /\ UNCHANGED <<users, regpw, dbUp, session, req, response>>
    /\ UNCHANGED mailVars

\* NEWS_CACHE["items"] = items; return items
NewsSetItems(p) ==
    /\ pc[p] = "news_set_items"
    /\ NEWS_CACHE' = [NEWS_CACHE EXCEPT !.items = items[p]]
    /\ response' = Sent(p, Get("news"), NewsPage(items[p]))
    /\ pc' = [pc EXCEPT ![p] = "idle"]
    /\ now' = [now EXCEPT ![p] = 0]
    /\ items' = [items EXCEPT ![p] = <<>>]
    /\ seen' = [seen EXCEPT ![p] = NoSeen]
    /\ UNCHANGED <<clock, written, wroteBy>>
    /\ UNCHANGED <<users, regpw, dbUp, session, req>>
    /\ UNCHANGED mailVars

NewsStep(p) ==
    \/ NewsStart(p)
    \/ NewsReadTs(p)
    \/ NewsReadItems(p)
    \/ NewsReturnCached(p)
    \/ NewsParse(p)
    \/ NewsSetTs(p)
    \/ NewsSetItems(p)

\* ------------------------------------------------------- specifications

\* No other client has a request in flight.
OthersIdle(p) == \A q \in Procs \ {p} : pc[q] = "idle"

\* No other client is between the parse and the second store of a refresh.
OthersNotFetching(p) ==
    \A q \in Procs \ {p} : pc[q] \notin {"news_parse", "news_set_ts", "news_set_items"}

\* Every request of every client, interleaved.
Next ==
    \/ \E p \in Procs : AuthStep(p)
    \/ \E p \in Procs, form \in Forms : Contact(p, form)
    \/ \E p \in Procs : NewsStep(p)
    \/ DbFail
    \/ DbRecover
    \/ Tick

Spec == Init /\ [][Next]_vars

\* The credential and session flow alone, requests overlapping.
NextAuth ==
    \/ \E p \in Procs : AuthStep(p)
    \/ DbFail
    \/ DbRecover

SpecAuth == Init /\ [][NextAuth]_vars

\* The credential and session flow, one request at a time: a request arrives
\* only while no other is in flight.
NextAuthSeq ==
    \/ \E p \in Procs, username \in Usernames, password \in Passwords :
           OthersIdle(p) /\ Register(p, username, password)
    \/ \E p \in Procs : RegisterInsert(p)
    \/ \E p \in Procs, username \in Usernames, password \in Passwords :
           OthersIdle(p) /\ Login(p, username, password)
    \/ \E p \in Procs : OthersIdle(p) /\ Logout(p)
    \/ \E p \in Procs : OthersIdle(p) /\ Dashboard(p)
    \/ DbFail
    \/ DbRecover

SpecAuthSeq == Init /\ [][NextAuthSeq]_vars

\* Registration and the contact form with their notification mails, one
\* request at a time, under either SMTP configuration (one username and
\* password, one form: the mail does not depend on them).
NextMail ==
    \/ \E p \in Procs : OthersIdle(p) /\ Register(p, "alice", "pw1")
    \/ \E p \in Procs : RegisterInsert(p)
    \/ \E p \in Procs : OthersIdle(p) /\ Contact(p, "f1")
    \/ DbFail
    \/ DbRecover

SpecMail == InitAnySmtp /\ [][NextMail]_vars

\* The contact form alone, submissions of the clients in any order.
NextContact ==
    \/ \E p \in Procs, form \in Forms : Contact(p, form)
    \/ DbFail
    \/ DbRecover

SpecContact == InitAnySmtp /\ [][NextContact]_vars

\* Every kind of request, one request at a time, at one instant of the clock:
\* the clients register and log in under one username, client "c1" also
\* writes to the contact form and client "c2" also reads the news.
NextSite ==
    \/ \E p \in Procs : OthersIdle(p) /\ Register(p, "alice", "pw1")
    \/ \E p \in Procs : RegisterInsert(p)
    \/ \E p \in Procs, password \in Passwords :
           OthersIdle(p) /\ Login(p, "alice", password)
    \/ \E p \in Procs : OthersIdle(p) /\ Logout(p)
    \/ \E p \in Procs : OthersIdle(p) /\ Dashboard(p)
    \/ OthersIdle("c1") /\ Contact("c1", "f1")
    \/ OthersIdle("c2") /\ NewsStart("c2")
    \/ NewsReadTs("c2")
    \/ NewsReadItems("c2")
    \/ NewsReturnCached("c2")
    \/ NewsParse("c2")
    \/ NewsSetTs("c2")
    \/ NewsSetItems("c2")
    \/ DbFail
    \/ DbRecover

SpecSite == Init /\ [][NextSite]_vars

\* The feed cache alone, requests overlapping.
NextNews ==
    \/ \E p \in Procs : NewsStep(p)
    \/ Tick

SpecNews == Init /\ [][NextNews]_vars

\* The feed cache, requests overlapping but at most one of them refreshing
\* at a time: a call goes on to the parse only while no other call is
\* between its parse and its second store.
NextNewsOneRefresh ==
    \/ \E p \in Procs : NewsStart(p)
    \/ \E p \in Procs :
           NewsReadTs(p) /\ (pc'[p] = "news_parse" => OthersNotFetching(p))
    \/ \E p \in Procs :
           NewsReadItems(p) /\ (pc'[p] = "news_parse" => OthersNotFetching(p))
    \/ \E p \in Procs : NewsReturnCached(p)
    \/ \E p \in Procs : NewsParse(p)
    \/ \E p \in Procs : NewsSetTs(p)
    \/ \E p \in Procs : NewsSetItems(p)
    \/ Tick

SpecNewsOneRefresh == Init /\ [][NextNewsOneRefresh]_vars

\* The feed cache, one request at a time.
NextNewsSeq ==
    \/ \E p \in Procs : OthersIdle(p) /\ NewsStart(p)
    \/ \E p \in Procs : NewsReadTs(p)
    \/ \E p \in Procs : NewsReadItems(p)
    \/ \E p \in Procs : NewsReturnCached(p)
    \/ \E p \in Procs : NewsParse(p)
    \/ \E p \in Procs : NewsSetTs(p)
    \/ \E p \in Procs : NewsSetItems(p)
    \/ Tick

SpecNewsSeq == Init /\ [][NextNewsSeq]_vars

\* ------------------------------------------------------------ properties

\* This step completes a request `op` of client p: it logs the exchange. (A
\* step that answers at once and logs the exchange already logged changes
\* nothing at all.)
Completes(p, op) ==
    /\ response'.client = p
    /\ response'.request.op = op
    /\ response' # response \/ (pc[p] # "idle" /\ pc'[p] = "idle")

\* No two stored user records share a username.
UniqueUsernames(us) ==
    \A i, j \in DOMAIN us : us[i].username = us[j].username => i = j

\* `after` is `before` and one more record, for `username`.
StoresOne(before, after, username) ==
    /\ Len(after) = Len(before) + 1
    /\ SubSeq(after, 1, Len(before)) = before
    /\ after[Len(after)].username = username

\* The record find_one answers for a username: the first stored under it.
IsFirst(i) == \A j \in DOMAIN users : users[j].username = users[i].username => i <= j

\* C1 as stated: requests not overlapping, every Register with a username no
\* record has succeeds and stores exactly one record for it, every Register
\* with a username some record has is rejected as DuplicateUsername and stores
\* nothing, and no two stored records share a username.
C1_RegisterOnce ==
    [][\A p \in Procs : Completes(p, "register") =>
          LET username == response'.request.username IN
          /\ Matches(username) = {} =>
                /\ response'.answer = RegSuccess
                /\ StoresOne(users, users', username)
          /\ Matches(username) # {} =>
                /\ response'.answer = RegDuplicate
                /\ users' = users
          /\ UniqueUsernames(users')]_vars

\* C1 amended: the same while the document store answers; when the store
\* raises, the Register is answered "Registration failed" (insert_one raised)
\* or with a 500 (find_one raised) and stores nothing. Usernames stay unique.
C1_RegisterOnceStoreUp ==
    [][\A p \in Procs : Completes(p, "register") =>
          LET username == response'.request.username IN
          /\ (dbUp /\ Matches(username) = {}) =>
                /\ response'.answer = RegSuccess
                /\ StoresOne(users, users', username)
          /\ (dbUp /\ Matches(username) # {}) =>
                /\ response'.answer = RegDuplicate
                /\ users' = users
          /\ ~dbUp =>
                /\ response'.answer \in {RegFailed, ServerError}
                /\ users' = users
          /\ UniqueUsernames(users')]_vars

\* A later Register with a stored username has been rejected.
C1_Witness ==
    /\ response.request.op = "register"
    /\ response.answer = RegDuplicate
    /\ Matches(response.request.username) # {}

\* The session s is that of the user record doc.
SessionFor(s, doc) ==
    /\ DOMAIN s = {"user_id", "username"}
    /\ s["user_id"] = Str(doc.id)
    /\ s["username"] = doc.username

SessionOf(s, i) == SessionFor(s, users[i])

\* C2 as stated, for every stored record: Authenticate with its username and
\* the password it was registered with succeeds and sets the session to that
\* record's id and username; with any other password it fails with
\* InvalidCredentials and the session stays as it was. (Stated of the logins
\* the document store answers: a login it does not answer ends in a 500,
\* which refutes the claim as well.)
C2_Authenticate ==
    [][\A p \in Procs : (Completes(p, "login") /\ dbUp) =>
          \A i \in DOMAIN users :
              users[i].username = response'.request.username =>
                  IF response'.request.password = regpw[i]
                  THEN /\ response'.answer = LoginSuccess
                       /\ SessionOf(session'[p], i)
                  ELSE /\ response'.answer = LoginInvalid
                       /\ session' = session]_vars

\* C2 amended: the same for the record stored first under its username, the
\* one find_one answers (while the document store answers).
C2_AuthenticateFirst ==
    [][\A p \in Procs : (Completes(p, "login") /\ dbUp) =>
          \A i \in DOMAIN users :
              (users[i].username = response'.request.username /\ IsFirst(i)) =>
                  IF response'.request.password = regpw[i]
                  THEN /\ response'.answer = LoginSuccess
                       /\ SessionOf(session'[p], i)
                  ELSE /\ response'.answer = LoginInvalid
                       /\ session' = session]_vars

\* A login has succeeded for the first of two records sharing a username.
C2_Witness ==
    /\ response.request.op = "login"
    /\ response.answer = LoginSuccess
    /\ \E i \in DOMAIN users :
          /\ SessionOf(session[response.client], i)
          /\ response.request.password = regpw[i]
          /\ Cardinality(Matches(users[i].username)) > 1

\* C3: a dashboard request is answered with the page exactly when the session
\* carries a user_id, and with the redirect to login (the page not rendered)
\* otherwise; a successful Register or Authenticate leaves a session that
\* carries one; Logout leaves a session that carries none; and a session that
\* carries none gets one only by a successful Register or Authenticate of its
\* client. So after Logout the dashboard is refused until the next success.
C3_RequireSession ==
    [][\A p \in Procs :
          /\ Completes(p, "dashboard") =>
                /\ session' = session
                /\ response'.answer =
                       IF "user_id" \in DOMAIN session[p]
                       THEN DashboardPage ELSE LoginRequired
          /\ ((Completes(p, "register") \/ Completes(p, "login"))
                  /\ response'.answer \in {RegSuccess, LoginSuccess}) =>
                "user_id" \in DOMAIN session'[p]
          /\ Completes(p, "logout") => DOMAIN session'[p] = {}
          /\ ("user_id" \notin DOMAIN session[p] /\ "user_id" \in DOMAIN session'[p]) =>
                /\ Completes(p, "register") \/ Completes(p, "login")
                /\ response'.answer \in {RegSuccess, LoginSuccess}]_vars

\* A registration gave a session, a logout ended it, and the dashboard has
\* been refused since: no client holds a session and the refusal came last.
C3_Witness ==
    /\ response.request.op = "dashboard"
    /\ response.answer = LoginRequired
    /\ Len(users) = 1
    /\ \A q \in Procs : DOMAIN session[q] = {}

\* C9: register's insert does not look at the collection again: once a
\* Register has passed the existence check, its insert (when the store
\* answers) is accepted and stores its record, whatever was stored under that
\* username in between. The witness is the state the claim describes: two
\* accepted records with one username.
C9_InsertUnchecked ==
    [][\A p \in Procs : (pc[p] = "reg_insert" /\ pc'[p] = "idle" /\ dbUp) =>
          /\ response'.answer = RegSuccess
          /\ StoresOne(users, users', req[p].username)
          /\ SessionFor(session'[p], users'[Len(users')])]_vars

\* Two stored records share a username, and both clients hold the session
\* their accepted registration gave them.
C9_Witness ==
    \E i, j \in DOMAIN users :
        /\ i # j
        /\ users[i].username = users[j].username
        /\ \E p, q \in Procs : p # q /\ SessionOf(session[p], i) /\ SessionOf(session[q], j)

\* The password is the one the record find_one answers was registered with.
RightPassword(username, password) ==
    \E i \in Matches(username) : IsFirst(i) /\ regpw[i] = password

\* C10: a login that does not succeed is answered the same way whether the
\* username has a record or not: while the store answers, the one redirect
\* to login with the one message, the session untouched; while it raises, a
\* 500 in both cases.
C10_NoEnumeration ==
    [][\A p \in Procs : Completes(p, "login") =>
          LET username == response'.request.username
              password == response'.request.password
          IN  /\ (dbUp /\ Matches(username) = {}) =>
                    (response'.answer = LoginInvalid /\ session' = session)
              /\ (dbUp /\ Matches(username) # {} /\ ~RightPassword(username, password)) =>
                    (response'.answer = LoginInvalid /\ session' = session)
              /\ ~dbUp =>
                    (response'.answer = ServerError /\ session' = session)]_vars

\* A login under a username no record has was refused while the other
\* username is registered.
C10_Witness ==
    /\ response.request.op = "login"
    /\ response.answer = LoginInvalid
    /\ Matches(response.request.username) = {}
    /\ users # <<>>

\* The cache entry is fresh for the call of p: now - NEWS_CACHE["ts"] < CACHE_TTL.
Fresh(p) == now[p] - NEWS_CACHE.ts < CACHE_TTL

\* p is in fetch_news, before the fetch / in or after it.
Checking(p) == pc[p] \in {"news_ts", "news_items", "news_return"}
Fetching(p) == pc[p] \in {"news_parse", "news_set_ts", "news_set_items"}

\* What any call does, whatever the cache holds: a call that finds the entry
\* stale fetches; a call fetches at most once; a fetching call answers the
\* items it stores.
OneFetch(p) ==
    /\ (pc[p] = "news_ts" /\ pc'[p] # pc[p] /\ ~Fresh(p)) => pc'[p] = "news_parse"
    /\ (Fetching(p) /\ pc'[p] # pc[p]) =>
           /\ pc[p] # "news_parse" => pc'[p] # "news_parse"
           /\ pc'[p] \in {"news_parse", "news_set_ts", "news_set_items", "idle"}
    /\ (pc[p] = "news_set_items" /\ pc'[p] = "idle") =>
           response'.answer = NewsPage(NEWS_CACHE'.items)

\* C4 as stated (calls not overlapping): a call made while the entry written
\* by a successful fetch is fresh does not fetch, leaves the entry alone and
\* answers the entry's items; a call made once the entry is stale fetches
\* exactly once.
C4_CachedWithinTtl ==
    [][\A p \in Procs :
          /\ (Checking(p) /\ pc'[p] # pc[p] /\ wroteBy = "ok" /\ Fresh(p)) =>
                /\ pc'[p] # "news_parse"
                /\ NEWS_CACHE' = NEWS_CACHE
                /\ pc'[p] = "idle" => response'.answer = NewsPage(NEWS_CACHE.items)
          /\ OneFetch(p)]_vars

\* C4 amended: the same when the successful fetch stored at least one item.
C4_CachedWithinTtlNonEmpty ==
    [][\A p \in Procs :
          /\ (Checking(p) /\ pc'[p] # pc[p] /\ wroteBy = "ok" /\ Fresh(p)
                  /\ NEWS_CACHE.items # <<>>) =>
                /\ pc'[p] # "news_parse"
                /\ NEWS_CACHE' = NEWS_CACHE
                /\ pc'[p] = "idle" => response'.answer = NewsPage(NEWS_CACHE.items)
          /\ OneFetch(p)]_vars

\* A call made after the clock moved on from a successful fetch is about to
\* answer from the cache.
C4_Witness ==
    \E p \in Procs :
        /\ pc[p] = "news_return"
        /\ wroteBy = "ok"
        /\ now[p] > NEWS_CACHE.ts
        /\ NEWS_CACHE.items # <<>>

\* The call of p ends after a fetch that failed: parse raised, or answered a
\* feed it could not fetch or parse.
FailedCallEnds(p) ==
    /\ pc'[p] = "idle"
    /\ pc[p] = "news_parse" \/ (pc[p] = "news_set_items" /\ Failed(seen[p].fetch))

\* C5 as stated (calls not overlapping): a call whose fetch fails while the
\* cache holds items answers those items.
C5_StaleOnError ==
    [][\A p \in Procs : (FailedCallEnds(p) /\ NEWS_CACHE.items # <<>>) =>
          response'.answer = NewsPage(NEWS_CACHE.items)]_vars

\* C6 as stated (calls not overlapping): a call whose fetch fails answers the
\* page with no items, and no step of it changes the cache entry.
C6_FailureLeavesCache ==
    [][\A p \in Procs :
          /\ FailedCallEnds(p) =>
                (response'.answer = NewsPage(<<>>) /\ NEWS_CACHE' = NEWS_CACHE)
          /\ (Fetching(p) /\ Failed(seen[p].fetch) /\ pc'[p] # pc[p]) =>
                NEWS_CACHE' = NEWS_CACHE]_vars

\* C7 as stated: once the cache holds items, it holds items after every step.
C7_NeverCleared ==
    [][NEWS_CACHE.items # <<>> => NEWS_CACHE'.items # <<>>]_vars

\* C8 as stated (one call refreshing, the others reading): the "ts" a call
\* read and the items it answers from the cache are a pair one refresh wrote
\* (or the initial pair).
C8_NoTornRead ==
    [][\A p \in Procs : (pc[p] = "news_return" /\ pc'[p] = "idle") =>
          <<seen[p].ts, response'.answer.news>> \in written]_vars

\* This step is a contact-form submission of client p.
Submits(p) ==
    /\ response'.client = p
    /\ response'.request.op = "contact"
    /\ response' # response \/ outbox' # outbox \/ contacts' # contacts

\* One more call of send_email, the last of outbox', with this subject.
MailedOnce(subject) ==
    /\ Len(outbox') = Len(outbox) + 1
    /\ SubSeq(outbox', 1, Len(outbox)) = outbox
    /\ outbox'[Len(outbox')].subject = subject

\* What became of a mail is what the configuration allows: skipped without
\* the SMTP settings, sent or failed with them.
AttemptOk(attempt) ==
    IF smtp THEN attempt \in {"sent", "failed"} ELSE attempt = "skipped"

\* C11: every contact-form submission is answered with the redirect to the
\* contact page and the success message, whether the store took the message
\* or raised and whether the mail was sent, skipped or failed; the store
\* takes the message exactly when it answers; and the mail is attempted
\* either way, also when the store raised. The session is left alone.
C11_ContactAlwaysThanks ==
    [][\A p \in Procs : Submits(p) =>
          LET form == response'.request.form IN
          /\ response'.answer = ContactThanks
          /\ MailedOnce(ContactSubject(form))
          /\ AttemptOk(outbox'[Len(outbox')].attempt)
          /\ IF dbUp
             THEN /\ Len(contacts') = Len(contacts) + 1
                  /\ SubSeq(contacts', 1, Len(contacts)) = contacts
                  /\ contacts'[Len(contacts')].form = form
             ELSE contacts' = contacts
          /\ session' = session]_vars

\* A submission was thanked although the store had raised and the SMTP
\* server failed: nothing is stored, the one mail attempt failed.
C11_Witness ==
    /\ response.request.op = "contact"
    /\ response.answer = ContactThanks
    /\ contacts = <<>>
    /\ Len(outbox) = 1
    /\ outbox[1].attempt = "failed"

\* A normal response: a page, or a redirect that carries a message.
NormalResponse(answer) ==
    \/ answer.status = 200
    \/ answer.status = 302 /\ answer.flash # <<>>

\* C12 as stated: every request that is answered, whatever the document
\* store does meanwhile, is answered with a page or a redirect with a
\* message, never with the 500 of an unhandled exception.
C12_AlwaysAnswered ==
    [][response' # response => NormalResponse(response'.answer)]_vars

\* C13: every Logout is answered with the redirect and its message and
\* leaves its client without a session, whether the client had one or not;
\* a Logout of a client without a session (never logged in, or logged out
\* already) changes nothing but the exchange logged; and no Logout touches
\* a stored record or another client's session.
C13_LogoutIdempotent ==
    [][\A p \in Procs : Completes(p, "logout") =>
          /\ response'.answer = LoggedOut
          /\ session'[p] = EmptySession
          /\ session[p] = EmptySession => session' = session
          /\ \A q \in Procs \ {p} : session'[q] = session[q]
          /\ users' = users]_vars

\* A Logout was answered for a client that never had a session: nobody has
\* registered yet.
C13_Witness ==
    /\ response.request.op = "logout"
    /\ response.answer = LoggedOut
    /\ users = <<>>
    /\ session[response.client] = EmptySession

\* C14: no step of any request changes or removes a stored user record (the
\* records stored before the step are the first records after it, as they
\* were), and a step that stores a record is the insert of a Register that
\* is answered as successful, storing one record under its username.
C14_RecordsImmutable ==
    [][/\ Len(users') >= Len(users)
       /\ SubSeq(users', 1, Len(users)) = users
       /\ users' # users =>
             \E p \in Procs :
                 /\ pc[p] = "reg_insert" /\ pc'[p] = "idle"
                 /\ response' = Sent(p, req[p], RegSuccess)
                 /\ StoresOne(users, users', req[p].username)]_vars

\* A record is stored and requests of the other kinds have been handled
\* since: a contact form was stored, the news were fetched, and the record's
\* user has just logged in again.
C14_Witness ==
    /\ Len(users) = 1
    /\ contacts # <<>>
    /\ NEWS_CACHE.items # <<>>
    /\ response.request.op = "login"
    /\ response.answer = LoginSuccess
    /\ SessionOf(session[response.client], 1)

\* `its` is the first MaxItems entries of `entries` in their order (all of
\* them when there are fewer), each as the item made of it.
FirstOf(its, entries) ==
    /\ Len(its) = (IF Len(entries) < MaxItems THEN Len(entries) ELSE MaxItems)
    /\ \A i \in 1..Len(its) :
          /\ its[i].title = entries[i].title
          /\ its[i].link = entries[i].link
          /\ its[i].published =
                 IF "published" \in DOMAIN entries[i] THEN entries[i].published ELSE <<>>

\* C15: the items a fetching call builds are the first MaxItems entries of
\* the feed it parsed, in feed order; those are the items it stores in the
\* cache and the items it answers; and the cache never holds more than
\* MaxItems items.
C15_Truncates ==
    [][/\ \A p \in Procs :
             /\ (pc[p] = "news_parse" /\ pc'[p] = "news_set_ts") =>
                    FirstOf(items'[p], seen'[p].entries)
             /\ (pc[p] = "news_set_items" /\ pc'[p] = "idle") =>
                    /\ FirstOf(NEWS_CACHE'.items, seen[p].entries)
                    /\ response'.answer = NewsPage(NEWS_CACHE'.items)
       /\ Len(NEWS_CACHE'.items) <= MaxItems]_vars

\* A fetch of a feed with more than MaxItems entries has been stored and
\* answered: the cache holds its first MaxItems entries.
C15_Witness ==
    /\ Len(NEWS_CACHE.items) = MaxItems
    /\ NEWS_CACHE.items[1].title = <<"B", 1>>
    /\ NEWS_CACHE.items[MaxItems].title = <<"B", MaxItems>>
    /\ response.request.op = "news"
    /\ response.answer = NewsPage(NEWS_CACHE.items)

C17_SaltedHashes ==
    /\ \A i \in DOMAIN users :
          /\ users[i].password # Plaintext(regpw[i])
          /\ Len(users[i].password) = 3
          /\ users[i].password[2] \in Salts
    /\ \A i, j \in DOMAIN users :
          (i # j /\ regpw[i] = regpw[j]) => users[i].password # users[j].password

\* Two usernames are registered with the same plaintext password.
C17_Witness ==
    \E i, j \in DOMAIN users :
        /\ users[i].username # users[j].username
        /\ regpw[i] = regpw[j]

\* C18: a Register that is not answered as successful (duplicate username,
\* failed insert, or the store raising on the lookup) and a login that is not
\* answered as successful leave every session as it was: a client logged in
\* as a user is still logged in as that user, a client without a session
\* still has none.
C18_RejectionKeepsSession ==
    [][\A p \in Procs :
          /\ (Completes(p, "register") /\ response'.answer # RegSuccess) =>
                 session' = session
          /\ (Completes(p, "login") /\ response'.answer # LoginSuccess) =>
                 session' = session]_vars

\* A client logged in as a stored user has just had a Register refused.
C18_Witness ==
    /\ response.request.op = "register"
    /\ response.answer \in {RegDuplicate, RegFailed}
    /\ \E i \in DOMAIN users : SessionOf(session[response.client], i)

\* C19: in every state the session of every client has neither user_id nor
\* username, or has both and they are the identifier and the username of one
\* stored user record.
C19_SessionWellFormed ==
    \A p \in Procs :
        \/ "user_id" \notin DOMAIN session[p] /\ "username" \notin DOMAIN session[p]
        \/ /\ "user_id" \in DOMAIN session[p]
           /\ "username" \in DOMAIN session[p]
           /\ \E i \in DOMAIN users :
                 /\ session[p]["user_id"] = Str(users[i].id)
                 /\ session[p]["username"] = users[i].username

\* Both clients hold the session of the same stored record: one registered
\* it, the other logged in as it.
C19_Witness ==
    \E i \in DOMAIN users :
        \A p \in Procs : SessionOf(session[p], i)

\* C20 as stated: under any interleaving of calls, no step makes the "ts" of
\* the cache smaller.
C20_FetchedAtMonotonic ==
    [][NEWS_CACHE'.ts >= NEWS_CACHE.ts]_vars

\* C20 amended: the "ts" of the cache changes only when a refresh stores the
\* clock value its call read when it began, and the refresh of a call that
\* no other call overlapped never makes it smaller.
C20_FetchedAtMonotonicAlone ==
    [][/\ NEWS_CACHE'.ts # NEWS_CACHE.ts =>
             \E p \in Procs : pc[p] = "news_set_ts" /\ pc'[p] = "news_set_items"
       /\ \A p \in Procs : (pc[p] = "news_set_ts" /\ pc'[p] = "news_set_items") =>
             /\ NEWS_CACHE'.ts = now[p]
             /\ ~seen[p].overlapped => NEWS_CACHE'.ts >= NEWS_CACHE.ts]_vars

\* A call that no other call overlapped has stored a later "ts" over the one
\* an earlier refresh had stored.
C20_Witness ==
    \E p \in Procs :
        /\ pc[p] = "news_set_items"
        /\ ~seen[p].overlapped
        /\ NEWS_CACHE.ts = now[p]
        /\ \E w \in written : w[1] >= StartTime /\ w[1] < NEWS_CACHE.ts

====
